---- MODULE Spec2Model ----
(***************************************************************************)
(* Model of rotate_matrix.py: in-place rotation of a square matrix by 90   *)
(* degrees.  rotate_matrix is modelled statement by statement (one action  *)
(* per assignment of the inner loop), get_cycle and odd as operators that  *)
(* build the index list the way the four range loops do.                   *)
(*                                                                         *)
(* Python lists are 0-indexed: a matrix is a function on 0..dim-1 of       *)
(* functions on 0..dim-1; the list of index tuples returned by get_cycle   *)
(* is a TLA+ sequence read through At (list[k] is seq[k+1]).               *)
(***************************************************************************)
EXTENDS Integers, Sequences, FiniteSets, TLC

\* Largest dimension of a generated (enumerated) matrix.
MaxDim == 5
\* Largest dimension of a matrix typed in by the user.
MaxCreateDim == 2
\* Number of successive calls of rotate_matrix on the same matrix.
MaxCalls == 4

VARIABLES matr, dim, cycles, cycle, rot, size, i, tmp, pc, side,
          calls, orig, entry, old, rd, wr, done

vars == <<matr, dim, cycles, cycle, rot, size, i, tmp, pc, side,
          calls, orig, entry, old, rd, wr, done>>

----------------------------------------------------------------------------
(* Python helpers *)

\* list[k] of a Python list held as a sequence
At(S, k) == S[k + 1]

\* list(range(a, b))
PyRange(a, b) == [k \in 1..(IF b > a THEN b - a ELSE 0) |-> a + k - 1]

\* list(range(a, b, -1))
PyRangeDown(a, b) == [k \in 1..(IF a > b THEN a - b ELSE 0) |-> a - k + 1]

\* len(matr)
len(M) == Cardinality(DOMAIN M)

\* int(dim/2) for dim >= 0
half(d) == d \div 2

----------------------------------------------------------------------------
(* generate_matrix, create_matrix *)

generate_matrix(d) ==
    [r \in 0..(d - 1) |->
        [c \in 0..(d - 1) |-> At(PyRange((r + 1) * d - d + 1, (r + 1) * d + 1), c)]]

\* entries the user types into a matrix
Values == {0, 1}

\* every matrix create_matrix can return for dimension d: d lines of d entries
create_matrix(d) == [0..(d - 1) -> [0..(d - 1) -> Values]]

\* the nested list written as rows, e.g. [[1,2],[3,4]] is Mat(<<<<1,2>>,<<3,4>>>>)
Mat(rows) ==
    [r \in 0..(Len(rows) - 1) |-> [c \in 0..(Len(rows) - 1) |-> rows[r + 1][c + 1]]]

\* a typed-in matrix whose only quartet (top, right, bottom, left) holds 1, 2, 3, 4
QuartetExample == Mat(<<<<1, 2>>, <<4, 3>>>>)

InputMatrices ==
    {generate_matrix(d) : d \in 0..MaxDim}
        \cup UNION {create_matrix(d) : d \in 0..MaxCreateDim}
        \cup {QuartetExample}

----------------------------------------------------------------------------
(* odd, get_cycle *)

odd_noparity(d, c) == c

odd(d, c) == IF d % 2 # 0 THEN c + 1 ELSE c

get_cycle_outer(c, d) ==
    LET lo == c
        hi == d - 1 - c
        upper == [k \in 1..Len(PyRange(lo, hi + 1)) |-> <<lo, PyRange(lo, hi + 1)[k]>>]
        right == [k \in 1..Len(PyRange(lo + 1, hi + 1)) |-> <<PyRange(lo + 1, hi + 1)[k], hi>>]
        lower == [k \in 1..Len(PyRangeDown(hi - 1, lo - 1)) |-> <<hi, PyRangeDown(hi - 1, lo - 1)[k]>>]
        left  == [k \in 1..Len(PyRangeDown(hi - 1, lo)) |-> <<PyRangeDown(hi - 1, lo)[k], lo>>]
    IN [rot |-> upper \o right \o lower \o left, size |-> Len(upper) - 1]

get_cycle_leftlong(c, d) ==
    LET init == half(d)
        u == PyRange(init - c - 1, init + odd(d, c) + 1)
        r == PyRange(init - c, init + odd(d, c) + 1)
        l == PyRangeDown(init + odd(d, c) - 1, init - c - 2)
        f == PyRangeDown(init + odd(d, c) - 1, init - c - 2)
        upper == [k \in 1..Len(u) |-> <<init - c - 1, u[k]>>]
        right == [k \in 1..Len(r) |-> <<r[k], init + odd(d, c)>>]
        lower == [k \in 1..Len(l) |-> <<init + odd(d, c), l[k]>>]
        left  == [k \in 1..Len(f) |-> <<f[k], init - c - 1>>]
    IN [rot |-> upper \o right \o lower \o left, size |-> Len(upper) - 1]

get_cycle(c, d) ==
    LET init == half(d)
        u == PyRange(init - c - 1, init + odd(d, c) + 1)
        r == PyRange(init - c, init + odd(d, c) + 1)
        l == PyRangeDown(init + odd(d, c) - 1, init - c - 2)
        f == PyRangeDown(init + odd(d, c) - 1, init - c - 1)
        upper == [k \in 1..Len(u) |-> <<init - c - 1, u[k]>>]
        right == [k \in 1..Len(r) |-> <<r[k], init + odd(d, c)>>]
        lower == [k \in 1..Len(l) |-> <<init + odd(d, c), l[k]>>]
        left  == [k \in 1..Len(f) |-> <<f[k], init - c - 1>>]
    IN [rot |-> upper \o right \o lower \o left, size |-> Len(upper) - 1]

----------------------------------------------------------------------------
(* the statements of the inner loop of rotate_matrix, as operators *)

\* matr[p[0]][p[1]]
Cell(M, p) == M[p[1]][p[2]]

\* matr[p[0]][p[1]] = v
SetCell(M, p, v) == [M EXCEPT ![p[1]][p[2]] = v]

LoadTmp_first(M, S, n, j, k) == Cell(M, At(S, j))

PutNew_swapped(M, S, n, j, k) == SetCell(M, At(S, j), Cell(M, At(S, j + k * n)))

PutNew_prev(M, S, n, j, k) == SetCell(M, At(S, j + k * n - 1), Cell(M, At(S, j)))

\* tmp = matr[rot[i+k*size][0]][rot[i+k*size][1]]
LoadTmp(M, S, n, j, k) == Cell(M, At(S, j + k * n))

\* matr[rot[i+k*size][0]][rot[i+k*size][1]] = matr[rot[i][0]][rot[i][1]]
PutNew(M, S, n, j, k) == SetCell(M, At(S, j + k * n), Cell(M, At(S, j)))

FreeTmp_keep(M, S, j, t) == SetCell(M, At(S, j), Cell(M, At(S, j)))

\* matr[rot[i][0]][rot[i][1]] = tmp
FreeTmp(M, S, j, t) == SetCell(M, At(S, j), t)

\* one of the three exchanges (upper, right, lower side) of an iteration
SwapSide(M, S, n, j, k) ==
    LET t == LoadTmp(M, S, n, j, k)
    IN FreeTmp(PutNew(M, S, n, j, k), S, j, t)

\* the body of the inner loop for one i
QuartetStep(M, S, n, j) ==
    SwapSide(SwapSide(SwapSide(M, S, n, j, 1), S, n, j, 2), S, n, j, 3)

NumCycles_up(d) == (d + 1) \div 2

\* cycles = int(dim/2)
NumCycles(d) == half(d)

\* the pairs (cycle, i) the two loops of rotate_matrix run through
AllQuartets(d) ==
    {q \in (0..(NumCycles(d) - 1)) \X (0..d) : q[2] < get_cycle(q[1], d).size}

\* the inner loop for one cycle, i = j..size-1, in the order of the code
RECURSIVE RotateRing(_, _, _, _)
RotateRing(M, S, n, j) ==
    IF j >= n THEN M ELSE RotateRing(QuartetStep(M, S, n, j), S, n, j + 1)

\* the outer loop, cycle = c..cycles-1, in the order of the code
RECURSIVE RotateFrom(_, _, _)
RotateFrom(M, d, c) ==
    IF c >= NumCycles(d) THEN M
    ELSE RotateFrom(RotateRing(M, get_cycle(c, d).rot, get_cycle(c, d).size, 0), d, c + 1)

\* rotate_matrix as a function of its argument
RotateSeq(M) == RotateFrom(M, len(M), 0)

----------------------------------------------------------------------------
(* rotate_matrix, statement by statement *)

Init ==
    /\ matr \in InputMatrices
    /\ dim = len(matr)
    /\ orig = matr
    /\ entry = matr
    /\ old = matr
    /\ cycles = 0
    /\ cycle = -1
    /\ rot = <<>>
    /\ size = 0
    /\ i = -1
    /\ tmp = 0
    /\ side = 0
    /\ pc = "idle"
    /\ calls = 0
    /\ rd = {}
    /\ wr = {}
    /\ done = {}

\* rotate_matrix(matr) is called: dim = len(matr); cycles = int(dim/2)
Call ==
    /\ pc = "idle"
    /\ calls < MaxCalls
    /\ dim' = len(matr)
    /\ cycles' = NumCycles(len(matr))
    /\ cycle' = -1
    /\ i' = -1
    /\ entry' = matr
    /\ done' = {}
    /\ pc' = "for_cycle"
    /\ rd' = {}
    /\ wr' = {}
    /\ UNCHANGED <<matr, rot, size, tmp, side, calls, orig, old>>

\* for cycle in range(cycles): rot, size = get_cycle(cycle, dim)
CycleEnter ==
    /\ pc = "for_cycle"
    /\ cycle + 1 < cycles
    /\ cycle' = cycle + 1
    /\ rot' = get_cycle(cycle + 1, dim).rot
    /\ size' = get_cycle(cycle + 1, dim).size
    /\ i' = -1
    /\ pc' = "for_i"
    /\ rd' = {}
    /\ wr' = {}
    /\ UNCHANGED <<matr, dim, cycles, tmp, side, calls, orig, entry, old, done>>

\* range(cycles) is exhausted
CycleExit ==
    /\ pc = "for_cycle"
    /\ ~(cycle + 1 < cycles)
    /\ pc' = "return"
    /\ rd' = {}
    /\ wr' = {}
    /\ UNCHANGED <<matr, dim, cycles, cycle, rot, size, i, tmp, side, calls,
                   orig, entry, old, done>>

\* for i in range(size): next i
IterEnter ==
    /\ pc = "for_i"
    /\ i + 1 < size
    /\ i' = i + 1
    /\ old' = matr
    /\ side' = 1
    /\ pc' = "load"
    /\ rd' = {}
    /\ wr' = {}
    /\ UNCHANGED <<matr, dim, cycles, cycle, rot, size, tmp, calls, orig, entry, done>>

\* range(size) is exhausted
IterExit ==
    /\ pc = "for_i"
    /\ ~(i + 1 < size)
    /\ pc' = "for_cycle"
    /\ rd' = {}
    /\ wr' = {}
    /\ UNCHANGED <<matr, dim, cycles, cycle, rot, size, i, tmp, side, calls,
                   orig, entry, old, done>>

\* tmp = matr[rot[i+side*size][0]][rot[i+side*size][1]]
Load ==
    /\ pc = "load"
    /\ tmp' = LoadTmp(matr, rot, size, i, side)
    /\ rd' = {At(rot, i + side * size)}
    /\ wr' = {}
    /\ pc' = "put"
    /\ UNCHANGED <<matr, dim, cycles, cycle, rot, size, i, side, calls,
                   orig, entry, old, done>>

\* matr[rot[i+side*size][0]][rot[i+side*size][1]] = matr[rot[i][0]][rot[i][1]]
Put ==
    /\ pc = "put"
    /\ matr' = PutNew(matr, rot, size, i, side)
    /\ rd' = {At(rot, i)}
    /\ wr' = {At(rot, i + side * size)}
    /\ pc' = "free"
    /\ UNCHANGED <<dim, cycles, cycle, rot, size, i, tmp, side, calls,
                   orig, entry, old, done>>

\* matr[rot[i][0]][rot[i][1]] = tmp, then the next side or the next i
Free ==
    /\ pc = "free"
    /\ matr' = FreeTmp(matr, rot, i, tmp)
    /\ rd' = {}
    /\ wr' = {At(rot, i)}
    /\ IF side < 3
       THEN /\ side' = side + 1
            /\ pc' = "load"
            /\ done' = done
       ELSE /\ side' = side
            /\ pc' = "for_i"
            /\ done' = done \cup {<<cycle, i>>}
    /\ UNCHANGED <<dim, cycles, cycle, rot, size, i, tmp, calls, orig, entry, old>>

\* return matr
Return ==
    /\ pc = "return"
    /\ calls' = calls + 1
    /\ pc' = "idle"
    /\ rd' = {}
    /\ wr' = {}
    /\ UNCHANGED <<matr, dim, cycles, cycle, rot, size, i, tmp, side,
                   orig, entry, old, done>>

Next ==
    \/ Call
    \/ CycleEnter
    \/ CycleExit
    \/ IterEnter
    \/ IterExit
    \/ Load
    \/ Put
    \/ Free
    \/ Return

Spec == Init /\ [][Next]_vars

----------------------------------------------------------------------------
(* the iterations of rotate_matrix taken in any order, each iteration *)
(* (three exchanges through tmp) as one step                          *)

AnyQuartet ==
    /\ pc = "idle"
    /\ \E q \in AllQuartets(len(matr)) \ done :
          /\ matr' = QuartetStep(matr, get_cycle(q[1], len(matr)).rot,
                                 get_cycle(q[1], len(matr)).size, q[2])
          /\ done' = done \cup {q}
    /\ UNCHANGED <<dim, cycles, cycle, rot, size, i, tmp, pc, side, calls,
                   orig, entry, old, rd, wr>>

NextAny == AnyQuartet

SpecAny == Init /\ [][NextAny]_vars

----------------------------------------------------------------------------
(* vocabulary of the properties *)

\* the index tuples of a list
Cells(S) == {S[k] : k \in 1..Len(S)}

AllCells(d) == (0..(d - 1)) \X (0..(d - 1))

Center(d) == <<half(d), half(d)>>

Min2(a, b) == IF a < b THEN a ELSE b

\* distance of a cell from the edge of the matrix
Depth(d, p) == Min2(Min2(p[1], p[2]), Min2(d - 1 - p[1], d - 1 - p[2]))

\* the k-th square border counted from the outer edge
Border(d, k) == {p \in AllCells(d) : Depth(d, p) = k}

\* control is inside the body of "for cycle in range(cycles)"
InLoop == pc \in {"for_i", "load", "put", "free"}

\* an iteration of the inner loop has just finished
IterDone == pc = "for_i" /\ i >= 0

\* the four cells iteration j of ring c works on
QuartetCells(c, d, j) ==
    {At(get_cycle(c, d).rot, j + k * get_cycle(c, d).size) : k \in 0..3}

\* the edges of a ring in closed form: rows and columns lo..hi
RingFormula(lo, hi) ==
    [k \in 1..(hi - lo + 1) |-> <<lo, lo + k - 1>>]
        \o [k \in 1..(hi - lo) |-> <<lo + k, hi>>]
        \o [k \in 1..(hi - lo) |-> <<hi, hi - k>>]
        \o [k \in 1..(hi - lo - 1) |-> <<hi - k, lo>>]

parityBump(d) == IF d % 2 = 1 THEN 1 ELSE 0

\* the statement-level run and the operator RotateSeq agree on every call
SeqAgrees == (pc = "idle" /\ calls >= 1) => matr = RotateSeq(entry)

----------------------------------------------------------------------------
(* C1 *)

\* C1: when rotate_matrix returns, the matrix is the 90-degree clockwise
\* rotation of its argument: result[r][c] = M[D-1-c][r] for all r, c; the
\* enumerated 3x3 matrix becomes [7,4,1],[8,5,2],[9,6,3] and [[1,2],[3,4]]
\* becomes [[3,1],[4,2]].
C1_Clockwise ==
    (pc = "idle" /\ calls >= 1) =>
        /\ \A r \in 0..(dim - 1) : \A c \in 0..(dim - 1) :
              matr[r][c] = entry[dim - 1 - c][r]
        /\ entry = Mat(<<<<1, 2, 3>>, <<4, 5, 6>>, <<7, 8, 9>>>>)
              => matr = Mat(<<<<7, 4, 1>>, <<8, 5, 2>>, <<9, 6, 3>>>>)
        /\ entry = Mat(<<<<1, 2>>, <<3, 4>>>>)
              => matr = Mat(<<<<3, 1>>, <<4, 2>>>>)

C1_Witness ==
    /\ pc = "idle"
    /\ calls = 1
    /\ orig = generate_matrix(3)
    /\ matr = Mat(<<<<7, 4, 1>>, <<8, 5, 2>>, <<9, 6, 3>>>>)

----------------------------------------------------------------------------
(* C2 *)

\* C2: after four successive calls of rotate_matrix the matrix equals, cell
\* by cell, the matrix the first call was given.
C2_FourRotations ==
    (pc = "idle" /\ calls = 4) =>
        /\ len(matr) = len(orig)
        /\ \A r \in 0..(dim - 1) : \A c \in 0..(dim - 1) : matr[r][c] = orig[r][c]

C2_Witness ==
    /\ pc = "idle"
    /\ calls = 4
    /\ dim = 5
    /\ matr = generate_matrix(5)

----------------------------------------------------------------------------
(* C3 *)

\* C3: the list returned by get_cycle has length 4*size and its entries are
\* pairwise distinct, and the lists of all cycles 0..floor(D/2)-1 together
\* hold every cell of the matrix except, for odd D, the center cell.
C3_RingDecomposition ==
    /\ InLoop =>
          /\ Len(rot) = 4 * size
          /\ Cardinality(Cells(rot)) = 4 * size
    /\ \A c \in 0..(half(dim) - 1) :
          /\ Len(get_cycle(c, dim).rot) = 4 * get_cycle(c, dim).size
          /\ Cardinality(Cells(get_cycle(c, dim).rot)) = 4 * get_cycle(c, dim).size
    /\ UNION {Cells(get_cycle(c, dim).rot) : c \in 0..(half(dim) - 1)}
          = AllCells(dim) \ (IF dim % 2 = 1 THEN {Center(dim)} ELSE {})

C3_Witness ==
    /\ InLoop
    /\ dim = 5
    /\ cycle = 1
    /\ Len(rot) = 16

----------------------------------------------------------------------------
(* C4 *)

\* C4: one iteration of the inner loop, with a = rot[i], b = rot[i+size],
\* c = rot[i+2*size], d = rot[i+3*size], leaves new[b] = old[a],
\* new[c] = old[b], new[d] = old[c], new[a] = old[d]; quartet values
\* (1,2,3,4) become (4,1,2,3).
C4_QuartetCycle ==
    IterDone =>
        LET a == At(rot, i)
            b == At(rot, i + size)
            c == At(rot, i + 2 * size)
            d == At(rot, i + 3 * size)
        IN /\ Cell(matr, b) = Cell(old, a)
           /\ Cell(matr, c) = Cell(old, b)
           /\ Cell(matr, d) = Cell(old, c)
           /\ Cell(matr, a) = Cell(old, d)
           /\ <<Cell(old, a), Cell(old, b), Cell(old, c), Cell(old, d)>> = <<1, 2, 3, 4>>
                 => <<Cell(matr, a), Cell(matr, b), Cell(matr, c), Cell(matr, d)>>
                        = <<4, 1, 2, 3>>

C4_Witness ==
    /\ IterDone
    /\ old = QuartetExample
    /\ <<Cell(matr, At(rot, 0)), Cell(matr, At(rot, 1)),
         Cell(matr, At(rot, 2)), Cell(matr, At(rot, 3))>> = <<4, 1, 2, 3>>

----------------------------------------------------------------------------
(* C5 *)

\* C5: for D = 0 and D = 1 rotate_matrix never enters the body of the ring
\* loop, writes no cell and returns the matrix with every cell unchanged.
C5_SmallUnchanged ==
    len(orig) <= 1 =>
        /\ ~InLoop
        /\ cycle = -1
        /\ wr = {}
        /\ done = {}
        /\ matr = orig

C5_Witness ==
    /\ len(orig) = 1
    /\ pc = "idle"
    /\ calls >= 1
    /\ matr = orig

----------------------------------------------------------------------------
(* C6 *)

\* C6 as stated: the ring handled at loop index cycle is the cycle-th border
\* counted from the outer edge (index 0 is the border holding cell (0,0)).
C6_OuterFirst ==
    InLoop =>
        /\ Cells(rot) = Border(dim, cycle)
        /\ cycle = 0 => <<0, 0>> \in Cells(rot)

\* C6 amended: rotate_matrix processes the rings from the innermost to the
\* outermost: loop index cycle handles the border at depth
\* floor(D/2)-1-cycle, so index 0 is the innermost ring and the last index
\* floor(D/2)-1 is the outer border, which holds cell (0,0).
C6_InnerFirst ==
    InLoop =>
        /\ Cells(rot) = Border(dim, half(dim) - 1 - cycle)
        /\ cycle = 0 => Cells(rot) = Border(dim, half(dim) - 1)
        /\ cycle = half(dim) - 1 <=> <<0, 0>> \in Cells(rot)

C6_Witness ==
    /\ InLoop
    /\ dim = 5
    /\ cycle = 0
    /\ <<0, 0>> \notin Cells(rot)
    /\ <<1, 1>> \in Cells(rot)

----------------------------------------------------------------------------
(* C7 *)

\* C7 as stated: the size returned by get_cycle(cycle, D) is D - 2*cycle - 1
\* and the list has length 4*(D - 2*cycle - 1).
C7_SizeOuter ==
    InLoop =>
        /\ size = dim - 2 * cycle - 1
        /\ Len(rot) = 4 * (dim - 2 * cycle - 1)

\* C7 amended: the size returned by get_cycle(cycle, D) is
\* 2*cycle + 1 + (D mod 2) (so the last cycle floor(D/2)-1 has size D-1),
\* and the list has length 4*(2*cycle + 1 + (D mod 2)).
C7_SizeInner ==
    InLoop =>
        /\ size = 2 * cycle + 1 + (dim % 2)
        /\ Len(rot) = 4 * (2 * cycle + 1 + (dim % 2))
        /\ cycle = half(dim) - 1 => size = dim - 1

C7_Witness ==
    /\ InLoop
    /\ dim = 4
    /\ cycle = 0
    /\ size = 1

----------------------------------------------------------------------------
(* C8 *)

\* C8 as stated: get_cycle(c, D) is top (half-c-1, j), j = half-c-1 ..
\* half+parityBump; right (i, half+parityBump), i = half-c .. half+parityBump;
\* bottom (half+parityBump, j), j = half+parityBump-1 down to half-c-1; left
\* (i, half-c-1), i = half+parityBump-1 down to half-c: the upper bounds do
\* not depend on c.
C8_FixedUpper ==
    InLoop =>
        rot = RingFormula(half(dim) - cycle - 1, half(dim) + parityBump(dim))

\* C8 amended: the same four edges with the upper bound
\* half + c + parityBump in place of half + parityBump: top (half-c-1, j),
\* j = half-c-1 .. half+c+parityBump; right (i, half+c+parityBump),
\* i = half-c .. half+c+parityBump; bottom (half+c+parityBump, j),
\* j = half+c+parityBump-1 down to half-c-1; left (i, half-c-1),
\* i = half+c+parityBump-1 down to half-c.
C8_UpperWithCycle ==
    InLoop =>
        rot = RingFormula(half(dim) - cycle - 1, half(dim) + cycle + parityBump(dim))

C8_Witness ==
    /\ InLoop
    /\ dim = 5
    /\ cycle = 1
    /\ rot = RingFormula(0, 4)

----------------------------------------------------------------------------
(* C9 *)

\* C9: every quartet {rot[i], rot[i+size], rot[i+2*size], rot[i+3*size]}
\* has 4 distinct cells, two different quartets (of the same ring or of
\* different rings) share no cell, and when the iterations have all been
\* executed, in whatever order, the matrix is the one the sequential order
\* of the code produces.
C9_AnyOrder ==
    /\ \A q \in AllQuartets(dim) : Cardinality(QuartetCells(q[1], dim, q[2])) = 4
    /\ \A q1 \in AllQuartets(dim) : \A q2 \in AllQuartets(dim) :
          q1 # q2 => QuartetCells(q1[1], dim, q1[2]) \cap QuartetCells(q2[1], dim, q2[2]) = {}
    /\ done = AllQuartets(dim) => matr = RotateSeq(orig)

C9_Witness ==
    /\ dim = 5
    /\ Cardinality(done) = 6
    /\ done = AllQuartets(dim)
    /\ matr = RotateSeq(orig)

----------------------------------------------------------------------------
(* C10 *)

\* C10: every step of rotate_matrix changes only cells of the list of the
\* ring being processed and writes to no other cell; for odd D the center
\* cell is neither read nor written and keeps its original value in every
\* state.
C10_Frame ==
    [][ /\ \A p \in AllCells(dim) :
              Cell(matr', p) # Cell(matr, p) => p \in Cells(get_cycle(cycle', dim').rot)
        /\ wr' # {} => wr' \subseteq Cells(get_cycle(cycle', dim').rot)
        /\ dim' % 2 = 1 =>
              /\ Center(dim') \notin rd' \cup wr'
              /\ Cell(matr', Center(dim')) = Cell(orig', Center(dim'))
      ]_vars

C10_Witness ==
    /\ dim = 5
    /\ cycle = 1
    /\ wr = {<<0, 0>>}
    /\ matr # orig

====
